---- MODULE Spec2Model ----
(***************************************************************************)
(* Model of blase's document synchronisation: the position codec           *)
(* (util.rs offset / text_range over a line_index::LineIndex) and the      *)
(* change applier (util.rs apply_document_changes), followed by the        *)
(* analysis database (db.rs, analysis/mod.rs).  Each part has its own       *)
(* variables and its own specification; a specification leaves the         *)
(* variables of the other parts as they are.                               *)
(*                                                                         *)
(* A text is a sequence of UTF-8 bytes.  Bytes are named by strings: the   *)
(* ASCII bytes "a", "b" and "\n", the two bytes "C8" "9B" of U+021B (a     *)
(* two-byte character, one UTF-16 unit) and the four bytes "F0" "9F" "98"  *)
(* "80" of U+1F600 (a four-byte character, a UTF-16 surrogate pair).       *)
(***************************************************************************)
EXTENDS Integers, Sequences, FiniteSets, TLC

VARIABLES encoding, file_contents, content_changes, pc, text, next,
          line_index, index_valid, rebuilt

vars == <<encoding, file_contents, content_changes, pc, text, next,
          line_index, index_valid, rebuilt>>

\* db.rs and analysis/mod.rs: the host's database, the snapshot handed out
\* by AnalysisHost::analysis, the writer of set_source_file, what the last
\* call returned, the number of calls of the parser, and how far each url
\* is through "set X, parse, set X"
VARIABLES analysis_host, analysis, writer, db_result, parser_runs, stage

db_vars == <<analysis_host, analysis, writer, db_result, parser_runs, stage>>

\* the database is not part of the specification at hand
NoDatabase ==
    /\ analysis_host = <<>>
    /\ analysis = <<>>
    /\ writer = <<>>
    /\ db_result = <<>>
    /\ parser_runs = 0
    /\ stage = <<>>

\* handler.rs: the documents of the ServerState, the diagnostics published
\* last, the notification handled last, the panic that ended the server's
\* loop, and whether the workspace was loaded
VARIABLES documents, published, handled, crash, loaded

handler_vars == <<documents, published, handled, crash, loaded>>

\* the handlers are not part of the specification at hand
NoHandlers ==
    /\ documents = <<>>
    /\ published = <<>>
    /\ handled = <<>>
    /\ crash = "none"
    /\ loaded = FALSE

\* server.rs: the client's capabilities, the documents of the Server, the
\* handlers in progress, the holders of the two locks, and the number of
\* requests dispatched so far
VARIABLES caps, server_documents, tasks, documents_lock, parser_lock, requests

server_vars == <<caps, server_documents, tasks, documents_lock, parser_lock, requests>>

\* the Server is not part of the specification at hand
NoServer ==
    /\ caps = <<>>
    /\ server_documents = <<>>
    /\ tasks = <<>>
    /\ documents_lock = 0
    /\ parser_lock = 0
    /\ requests = 0

\* lib.rs and db.rs, the other holders of a parser: the trees of the
\* Server of lib.rs, the holders of its two std RwLocks, the locks a panic
\* has poisoned, and for each thread whether the RefCell of its PARSER is
\* mutably borrowed
VARIABLES lib_documents, lib_parser_lock, lib_documents_lock, poisoned, PARSER

parser_vars == <<lib_documents, lib_parser_lock, lib_documents_lock, poisoned, PARSER>>

\* the other parsers are not part of the specification at hand
NoParsers ==
    /\ lib_documents = <<>>
    /\ lib_parser_lock = 0
    /\ lib_documents_lock = 0
    /\ poisoned = {}
    /\ PARSER = <<>>

\* loader.rs: the files load_workspace found, the number of them its
\* producer thread has gone through, the channel from the producer to the
\* request loop, and the position of load_workspace
VARIABLES entries, produced, rx, loader_pc

loader_vars == <<entries, produced, rx, loader_pc>>

\* load_workspace is not part of the specification at hand
NoLoader ==
    /\ entries = <<>>
    /\ produced = 0
    /\ rx = <<>>
    /\ loader_pc = "idle"

\* syntax_errors (handler.rs, db.rs) and diagnose_syntax (lib.rs): the
\* document (doc) and the text (contents) of a call, and what the call
\* returned
VARIABLES diag_doc, diag_contents, diagnostics

diagnostics_vars == <<diag_doc, diag_contents, diagnostics>>

\* no diagnostics are computed in the specification at hand
NoDiagnostics ==
    /\ diag_doc = <<>>
    /\ diag_contents = <<>>
    /\ diagnostics = <<>>

\* the variables of the other parts
beside_apply == <<db_vars, handler_vars, server_vars, parser_vars, loader_vars,
                  diagnostics_vars>>
beside_db == <<vars, handler_vars, server_vars, parser_vars, loader_vars,
               diagnostics_vars>>
beside_handlers == <<server_vars, parser_vars, loader_vars, diagnostics_vars>>

\* apply_document_changes is not part of the specification at hand
NoCall ==
    /\ encoding = "Utf8"
    /\ file_contents = <<>>
    /\ content_changes = <<>>
    /\ pc = "idle"
    /\ text = <<>>
    /\ next = 1
    /\ line_index = <<>>
    /\ index_valid = 0
    /\ rebuilt = FALSE

(***************************************************************************)
(* Bounds of the model and program constants.                              *)
(***************************************************************************)
\* columns named by a position are 0..MaxCol, and UintMax
MaxCol == 1
\* !0u32, the largest line or column and the initial watermark.  The
\* program's value is 2^32 - 1; TLC's integers end at 2^31 - 1, which stands
\* for it here: every text of the model is far shorter than either.
UintMax == 2147483647

NL == "\n"
Continuation == {"9B", "9F", "98", "80"}
Emoji == <<"F0", "9F", "98", "80">>
TComma == <<"C8", "9B">>

\* the three position encodings: PositionEncoding::Utf8, Wide(Utf16), Wide(Utf32)
Encodings == {"Utf8", "Utf16", "Utf32"}

(***************************************************************************)
(* str: UTF-8 helpers.                                                     *)
(***************************************************************************)
\* byte length of the character whose first byte is b
Utf8Len(b) == IF b = "F0" THEN 4 ELSE IF b = "C8" THEN 2 ELSE 1

\* str::is_char_boundary
IsCharBoundary(s, i) ==
    IF i = 0 THEN TRUE
    ELSE IF i >= Len(s) THEN i = Len(s)
    ELSE s[i + 1] \notin Continuation

(***************************************************************************)
(* line_index::LineIndex, as used by util.rs.                              *)
(*   newlines        offsets just after each "\n"                          *)
(*   line_wide_chars line |-> the non-ASCII characters of the line, each   *)
(*                   [start, end) in bytes from the start of the line      *)
(*   len             byte length of the text                               *)
(***************************************************************************)
RECURSIVE Analyze(_, _, _, _, _, _, _)
Analyze(s, i, cur_col, line, newlines, wide_chars, lwc) ==
    LET flush == IF wide_chars = <<>> THEN lwc
                 ELSE [l \in DOMAIN lwc \cup {line} |->
                          IF l = line THEN wide_chars ELSE lwc[l]]
    IN IF i > Len(s)
       THEN [newlines |-> newlines, line_wide_chars |-> flush, len |-> Len(s)]
       ELSE LET c_len == Utf8Len(s[i])
            IN IF s[i] = NL
               THEN Analyze(s, i + 1, 0, line + 1, Append(newlines, i), <<>>, flush)
               ELSE IF c_len > 1
                    THEN Analyze(s, i + c_len, cur_col + c_len, line, newlines,
                                 Append(wide_chars,
                                        [start |-> cur_col, end |-> cur_col + c_len]),
                                 lwc)
                    ELSE Analyze(s, i + 1, cur_col + 1, line, newlines, wide_chars, lwc)

\* LineIndex::new
LineIndexNew(s) == Analyze(s, 1, 0, 0, <<>>, <<>>, <<>>)

\* WideChar::wide_len
WideLen(enc, c) ==
    IF enc = "Utf16" THEN (IF c.end - c.start = 4 THEN 2 ELSE 1) ELSE 1

\* the loop of LineIndex::to_utf8 over the wide characters of the line, from
\* the k-th on; -1 stands for None (checked_add overflowed)
RECURSIVE WideToUtf8Col(_, _, _, _)
WideToUtf8Col(enc, wide_chars, k, col) ==
    IF k > Len(wide_chars) THEN col
    ELSE LET c == wide_chars[k]
         IN IF col > c.start
            THEN LET diff == (c.end - c.start) - WideLen(enc, c)
                 IN IF col > UintMax - diff THEN -1
                    ELSE WideToUtf8Col(enc, wide_chars, k + 1, col + diff)
            ELSE col

\* LineIndex::to_utf8: the UTF-8 column, or -1 for None
ToUtf8(index, enc, line, col) ==
    IF line \in DOMAIN index.line_wide_chars
    THEN WideToUtf8Col(enc, index.line_wide_chars[line], 1, col)
    ELSE col

\* LineIndex::line: the byte range of the line, terminator included
LineRange(index, line) ==
    IF line > Len(index.newlines) THEN [ok |-> FALSE]
    ELSE [ok    |-> TRUE,
          start |-> IF line = 0 THEN 0 ELSE index.newlines[line],
          end   |-> IF line < Len(index.newlines)
                    THEN index.newlines[line + 1] ELSE index.len]

Min(a, b) == IF a <= b THEN a ELSE b

(***************************************************************************)
(* util.rs                                                                 *)
(***************************************************************************)
Err(msg) == [ok |-> FALSE, err |-> msg]
Ok(v) == [ok |-> TRUE, val |-> v]

\* offset with the wide column used as a byte column (no to_utf8)
Offset_NoWideConversion(index, enc, position) ==
    LET line_range == LineRange(index, position.line)
    IN IF ~line_range.ok THEN Err("Invalid offset")
       ELSE Ok(line_range.start
                + Min(position.character, line_range.end - line_range.start))

\* offset without the clamp of the column to the line's length
Offset_Unclamped(index, enc, position) ==
    LET col == IF enc = "Utf8" THEN position.character
               ELSE ToUtf8(index, enc, position.line, position.character)
    IN IF col = -1 THEN Err("Invalid wide col offset")
       ELSE LET line_range == LineRange(index, position.line)
            IN IF ~line_range.ok THEN Err("Invalid offset")
               ELSE IF col > line_range.end - line_range.start
                    THEN Err("Invalid offset")
                    ELSE Ok(line_range.start + col)

\* fn offset
Offset(index, enc, position) ==
    LET col == IF enc = "Utf8" THEN position.character
               ELSE ToUtf8(index, enc, position.line, position.character)
    IN IF col = -1 THEN Err("Invalid wide col offset")
       ELSE LET line_range == LineRange(index, position.line)
            IN IF ~line_range.ok THEN Err("Invalid offset")
               ELSE Ok(line_range.start
                        + Min(col, line_range.end - line_range.start))

\* text_range without the comparison of the two offsets
TextRangeOf_NoOrderCheck(index, enc, range) ==
    LET start == Offset(index, enc, range.start)
    IN IF ~start.ok THEN start
       ELSE LET end == Offset(index, enc, range.end)
            IN IF ~end.ok THEN end
               ELSE Ok([start |-> start.val, end |-> end.val])

\* fn text_range
TextRangeOf(index, enc, range) ==
    LET start == Offset(index, enc, range.start)
    IN IF ~start.ok THEN start
       ELSE LET end == Offset(index, enc, range.end)
            IN IF ~end.ok THEN end
               ELSE IF end.val < start.val THEN Err("Invalid Range")
                    ELSE Ok([start |-> start.val, end |-> end.val])

\* String::replace_range: panics when an end of the range is not on a
\* character boundary of the string (or lies beyond its end)
ReplaceRange(s, r, new) ==
    IF IsCharBoundary(s, r.start) /\ IsCharBoundary(s, r.end)
    THEN [panicked |-> FALSE,
          text |-> SubSeq(s, 1, r.start) \o new \o SubSeq(s, r.end + 1, Len(s))]
    ELSE [panicked |-> TRUE, text |-> s]

\* change.range.is_none()
IsNone(change) == change.range.none

\* position instead of rposition: the first full-document change
RPosition_First(changes) ==
    LET full == {i \in 1..Len(changes) : IsNone(changes[i])}
    IN IF full = {} THEN 0 ELSE CHOOSE i \in full : \A j \in full : i <= j

\* Iterator::rposition(|change| change.range.is_none()): 0 stands for None
RPosition(changes) ==
    LET full == {i \in 1..Len(changes) : IsNone(changes[i])}
    IN IF full = {} THEN 0 ELSE CHOOSE i \in full : \A j \in full : j <= i

\* the full-document change's text is not taken: the original text is kept
StartingPoint_KeepsOriginal(contents, changes) ==
    LET idx == RPosition(changes)
    IN [text |-> contents, first |-> idx + 1]

\* without a full-document change the call starts from an empty string
StartingPoint_DropsOriginal(contents, changes) ==
    LET idx == RPosition(changes)
    IN IF idx = 0 THEN [text |-> <<>>, first |-> 1]
       ELSE [text |-> changes[idx].text, first |-> idx + 1]

\* apply_document_changes, lines 54-63: the starting text and the changes
\* that remain to be applied (from index first on)
StartingPoint(contents, changes) ==
    LET idx == RPosition(changes)
    IN IF idx = 0 THEN [text |-> contents, first |-> 1]
       ELSE [text |-> changes[idx].text, first |-> idx + 1]

\* the loop body unwrapping the conversion: a failed conversion aborts
LoopBody_AbortOnError(enc, st, change) ==
    LET range == change.range
        rebuild == st.index_valid <= range.end.line
        index == IF rebuild THEN LineIndexNew(st.text) ELSE st.line_index
        converted == TextRangeOf(index, enc, range)
        spliced == IF converted.ok
                   THEN ReplaceRange(st.text, converted.val, change.text)
                   ELSE [panicked |-> TRUE, text |-> st.text]
    IN [text |-> spliced.text, line_index |-> index,
        index_valid |-> range.start.line, rebuilt |-> rebuild,
        panicked |-> spliced.panicked]

\* the loop body without the rebuild: the index of the starting text is
\* used for every change
LoopBody_StaleIndex(enc, st, change) ==
    LET range == change.range
        converted == TextRangeOf(st.line_index, enc, range)
        spliced == IF converted.ok
                   THEN ReplaceRange(st.text, converted.val, change.text)
                   ELSE [panicked |-> FALSE, text |-> st.text]
    IN [text |-> spliced.text, line_index |-> st.line_index,
        index_valid |-> range.start.line, rebuilt |-> FALSE,
        panicked |-> spliced.panicked]

\* apply_document_changes, lines 85-93: one iteration of the loop on the
\* locals st = [text, line_index, index_valid]
LoopBody(enc, st, change) ==
    IF IsNone(change)
    THEN [text |-> st.text, line_index |-> st.line_index,
          index_valid |-> st.index_valid, rebuilt |-> FALSE, panicked |-> FALSE]
    ELSE LET range == change.range
             rebuild == st.index_valid <= range.end.line
             index == IF rebuild THEN LineIndexNew(st.text) ELSE st.line_index
             converted == TextRangeOf(index, enc, range)
             spliced == IF converted.ok
                        THEN ReplaceRange(st.text, converted.val, change.text)
                        ELSE [panicked |-> FALSE, text |-> st.text]
         IN [text |-> spliced.text, line_index |-> index,
             index_valid |-> range.start.line, rebuilt |-> rebuild,
             panicked |-> spliced.panicked]

\* what a call that panicked returns: no text
Panicked == [panicked |-> TRUE, text |-> <<>>]

\* the for loop of apply_document_changes from the i-th change on; a panic
\* ends the call
RECURSIVE Loop(_, _, _, _)
Loop(enc, st, changes, i) ==
    IF i > Len(changes) THEN [panicked |-> FALSE, text |-> st.text]
    ELSE LET after == LoopBody(enc, st, changes[i])
         IN IF after.panicked THEN Panicked
            ELSE Loop(enc, after, changes, i + 1)

\* pub fn apply_document_changes: [panicked, text]
ApplyDocumentChanges(enc, contents, changes) ==
    LET sp == StartingPoint(contents, changes)
    IN IF sp.first > Len(changes) THEN [panicked |-> FALSE, text |-> sp.text]
       ELSE Loop(enc,
                 [text |-> sp.text, line_index |-> LineIndexNew(sp.text),
                  index_valid |-> UintMax],
                 changes, sp.first)

(***************************************************************************)
(* Inputs of one call.                                                     *)
(***************************************************************************)
Lines == {0, 1}
Cols == (0..MaxCol) \cup {UintMax}
Positions == [line : Lines, character : Cols]
Ranges == [none : {FALSE}, start : Positions, end : Positions]
NoRange == [none |-> TRUE,
            start |-> [line |-> 0, character |-> 0],
            end |-> [line |-> 0, character |-> 0]]
\* texts a ranged change inserts
NewTexts == {<<>>, <<"b">>}
\* texts a full-document change carries
FullTexts == {<<"b", NL>>, <<"a">> \o Emoji \o TComma}
Changes == [range : Ranges, text : NewTexts] \cup [range : {NoRange}, text : FullTexts]
\* the documents a call starts from
Documents == {<<>>, <<"a", NL>>, Emoji, <<"a", NL>> \o TComma \o <<"a">>}
\* the batches of one call: no change, one change, two changes
Batches == {<<>>} \cup {<<c>> : c \in Changes} \cup {<<c, d>> : c, d \in Changes}

NoIndex == [newlines |-> <<>>, line_wide_chars |-> <<>>, len |-> 0]

(***************************************************************************)
(* One call of apply_document_changes, step by step.                       *)
(***************************************************************************)
Init ==
    /\ encoding \in Encodings
    /\ file_contents \in Documents
    /\ content_changes \in Batches
    /\ pc = "start"
    /\ text = <<>>
    /\ next = 1
    /\ line_index = NoIndex
    /\ index_valid = UintMax
    /\ rebuilt = FALSE
    /\ NoDatabase
    /\ NoHandlers
    /\ NoServer
    /\ NoParsers
    /\ NoLoader
    /\ NoDiagnostics

\* lines 54-82: pick the starting text, return it when no change remains,
\* otherwise build the line index and enter the loop
Start ==
    /\ pc = "start"
    /\ LET sp == StartingPoint(file_contents, content_changes)
       IN /\ text' = sp.text
          /\ next' = sp.first
          /\ IF sp.first > Len(content_changes)
             THEN pc' = "done" /\ line_index' = line_index
             ELSE pc' = "loop" /\ line_index' = LineIndexNew(sp.text)
    /\ index_valid' = UintMax
    /\ UNCHANGED <<encoding, file_contents, content_changes, rebuilt>>
    /\ UNCHANGED beside_apply

\* lines 83-94: one iteration of the loop
LoopIteration ==
    /\ pc = "loop"
    /\ next <= Len(content_changes)
    /\ LET after == LoopBody(encoding,
                             [text |-> text, line_index |-> line_index,
                              index_valid |-> index_valid],
                             content_changes[next])
       IN /\ text' = after.text
          /\ line_index' = after.line_index
          /\ index_valid' = after.index_valid
          /\ rebuilt' = after.rebuilt
          /\ pc' = IF after.panicked THEN "panic" ELSE "loop"
    /\ next' = next + 1
    /\ UNCHANGED <<encoding, file_contents, content_changes>>
    /\ UNCHANGED beside_apply

\* line 96: the loop is over, the text is returned
Return ==
    /\ pc = "loop"
    /\ next > Len(content_changes)
    /\ pc' = "done"
    /\ UNCHANGED <<encoding, file_contents, content_changes, text, next,
                   line_index, index_valid, rebuilt>>
    /\ UNCHANGED beside_apply

Next == Start \/ LoopIteration \/ Return

Spec == Init /\ [][Next]_vars

(***************************************************************************)
(* What a call returned: reading the text back from the bytes.             *)
(***************************************************************************)
Finished == pc \in {"done", "panic"}
Result == IF pc = "panic" THEN Panicked ELSE [panicked |-> FALSE, text |-> text]

\* the changes after the last full-document change are all ranged
AllRanged(changes) == \A i \in 1..Len(changes) : ~IsNone(changes[i])

\* the offsets just after each line break of s, read from the bytes
BreaksOf(s) == {i \in 1..Len(s) : s[i] = NL}
NumLines(s) == Cardinality(BreaksOf(s)) + 1
\* first byte offset of line l of s
LineStartOf(s, l) ==
    IF l = 0 THEN 0
    ELSE CHOOSE i \in BreaksOf(s) : Cardinality({j \in BreaksOf(s) : j <= i}) = l
\* offset just after line l of s, its terminator included
LineEndOf(s, l) == IF l + 1 < NumLines(s) THEN LineStartOf(s, l + 1) ELSE Len(s)
\* offsets at which a character of line l of s begins
CharStartsOf(s, l) ==
    {o \in LineStartOf(s, l)..(LineEndOf(s, l) - 1) : s[o + 1] \notin Continuation}
\* the first k of the characters that begin at the offsets starts
FirstChars(starts, k) == {o \in starts : Cardinality({q \in starts : q < o}) < k}
\* UTF-8 bytes of the first k characters of a line that begins at offset
\* from and ends at offset to, its characters beginning at starts
BytesOfFirst(starts, from, to, k) ==
    IF k >= Cardinality(starts) THEN to - from
    ELSE (CHOOSE o \in starts : Cardinality({q \in starts : q < o}) = k) - from
\* code units of the first k characters: UTF-16 counts a four-byte
\* character twice, UTF-32 counts every character once
UnitsOfFirst(enc, s, starts, k) ==
    LET first == FirstChars(starts, k)
    IN Cardinality(first)
       + (IF enc = "Utf16" THEN Cardinality({o \in first : s[o + 1] = "F0"}) ELSE 0)

\* line 82: the index of the starting text is built and no change has been
\* applied yet, so line_index is the index of text.  The index depends on
\* the starting text alone, so the entries with one change left to apply
\* already carry every index the batches produce.
AtLoopEntry ==
    /\ pc = "loop"
    /\ index_valid = UintMax
    /\ ~rebuilt
    /\ next = Len(content_changes)

Pos(l, c) == [line |-> l, character |-> c]
\* an insertion of new at position p
Insertion(p, new) == [range |-> [none |-> FALSE, start |-> p, end |-> p], text |-> new]

(***************************************************************************)
(* Claims.                                                                 *)
(***************************************************************************)
\* apply_document_changes on the changes one at a time, each call on the
\* text the call before returned
RECURSIVE FoldOneAtATime(_, _, _, _)
FoldOneAtATime(enc, contents, changes, i) ==
    IF i > Len(changes) THEN [panicked |-> FALSE, text |-> contents]
    ELSE LET one == ApplyDocumentChanges(enc, contents, <<changes[i]>>)
         IN IF one.panicked THEN one
            ELSE FoldOneAtATime(enc, one.text, changes, i + 1)

\* C1: a batch of ranged changes returns what folding the changes one at a
\* time returns (each range read against the text the earlier changes
\* produced, through an index of that text).
C1_BatchEqualsFold ==
    (Finished /\ AllRanged(content_changes))
        => Result = FoldOneAtATime(encoding, file_contents, content_changes, 1)

\* C2: a batch that is one full-document change returns its text, whatever
\* the original text and the encoding.
C2_FullReplaceReturnsPayload ==
    (pc # "start" /\ Len(content_changes) = 1 /\ IsNone(content_changes[1]))
        => (pc = "done" /\ text = content_changes[1].text)

C2_Witness ==
    /\ pc = "done"
    /\ Len(content_changes) = 1
    /\ IsNone(content_changes[1])
    /\ file_contents # content_changes[1].text
    /\ file_contents # <<>>

\* C3: the empty batch returns the original text, whatever the encoding.
C3_EmptyBatchReturnsOriginal ==
    (pc # "start" /\ content_changes = <<>>)
        => (pc = "done" /\ text = file_contents)

C3_Witness == pc = "done" /\ content_changes = <<>> /\ file_contents # <<>>

\* C4: when the last full-document change of the batch is at index i with
\* text S, the call returns what the call on S with the changes after i
\* returns, and the same as from every other original text.
C4_LastFullReplaceIsStart ==
    Finished =>
        \A i \in 1..Len(content_changes) :
            (IsNone(content_changes[i])
             /\ \A j \in (i + 1)..Len(content_changes) : ~IsNone(content_changes[j]))
            => /\ Result = ApplyDocumentChanges(encoding, content_changes[i].text,
                              SubSeq(content_changes, i + 1, Len(content_changes)))
               /\ \A other \in Documents :
                    Result = ApplyDocumentChanges(encoding, other, content_changes)

\* two full-document changes with different texts, or a ranged change
\* before the full-document change, and the call has returned
C4_Witness ==
    /\ pc = "done"
    /\ Len(content_changes) = 2
    /\ IsNone(content_changes[2])
    /\ content_changes[1].text # content_changes[2].text
    /\ text = content_changes[2].text
    /\ text # file_contents

\* the conversion of the change the loop is at fails on the index the
\* iteration used (after): a line of the range is not a line of the index,
\* or the end offset is below the start offset, or a column overflows
ConversionFails(index, enc, range) ==
    LET lines == Len(index.newlines) + 1
        start == Offset(index, enc, range.start)
        end == Offset(index, enc, range.end)
    IN \/ range.start.line >= lines
       \/ range.end.line >= lines
       \/ ~start.ok
       \/ ~end.ok
       \/ end.val < start.val

\* C5: an iteration whose range conversion fails leaves the text as it was
\* and goes on to the next change of the batch.
C5_FailedConversionSkipsChange ==
    [][(pc = "loop" /\ next <= Len(content_changes)
        /\ ConversionFails(line_index', encoding, content_changes[next].range))
       => (text' = text /\ pc' = "loop" /\ next' = next + 1)]_vars

\* a failed first change (its line does not exist) followed by an applied
\* second change
C5_Witness ==
    /\ pc = "done"
    /\ Len(content_changes) = 2
    /\ AllRanged(content_changes)
    /\ content_changes[1].range.start.line >= NumLines(file_contents)
    /\ content_changes[1].text # <<>>
    /\ text # file_contents
    /\ text = ApplyDocumentChanges(encoding, file_contents,
                                   <<content_changes[2]>>).text

\* C6: the call never aborts: every range that reaches replace_range lies
\* within the text and on character boundaries.
C6_NeverAborts == pc # "panic"

\* c1 then c0 is a batch of two insertions without line break, c1 on line 1
\* and c0 on line 0, into a text of at least two lines
TwoLineInsertions(contents, changes) ==
    /\ NumLines(contents) >= 2
    /\ Len(changes) = 2
    /\ AllRanged(changes)
    /\ \A i \in 1..2 : /\ changes[i].range.start = changes[i].range.end
                       /\ \A k \in 1..Len(changes[i].text) : changes[i].text[k] # NL
    /\ changes[1].range.start.line = 1
    /\ changes[2].range.start.line = 0

Swapped(changes) == <<changes[2], changes[1]>>

\* C7 as stated: when the batch that lists the line-1 insertion first and
\* the batch that lists the line-0 insertion first both return a text, they
\* return the same text.
C7_OrderIndependent ==
    LET swapped == ApplyDocumentChanges(encoding, file_contents,
                                        Swapped(content_changes))
    IN (pc = "done" /\ TwoLineInsertions(file_contents, content_changes)
        /\ ~swapped.panicked)
           => text = swapped.text

\* the insertion point of the line-0 insertion is on line 0: at or before
\* its terminator (a column beyond it is clamped to the offset after the
\* terminator, which is column 0 of line 1)
LandsOnLine0(enc, contents, change) ==
    LET at == Offset(LineIndexNew(contents), enc, change.range.start)
    IN at.ok => at.val < LineEndOf(contents, 0)

\* C7 amended: the two orders have the same result (the same text, or both
\* abort) when the line-0 insertion lands on line 0.
C7_OrderIndependentOnLine0 ==
    (Finished /\ TwoLineInsertions(file_contents, content_changes)
     /\ LandsOnLine0(encoding, file_contents, content_changes[2]))
        => Result = ApplyDocumentChanges(encoding, file_contents,
                                         Swapped(content_changes))

C7_Witness ==
    /\ pc = "done"
    /\ TwoLineInsertions(file_contents, content_changes)
    /\ LandsOnLine0(encoding, file_contents, content_changes[2])
    /\ content_changes[1].text # <<>>
    /\ content_changes[2].text # <<>>
    /\ Len(text) = Len(file_contents) + 2

\* C8: under a wide encoding the column that counts the code units of the
\* first k characters of a line converts to the line's start plus the UTF-8
\* bytes of those characters; an insertion at UTF-16 column 0 of a text
\* that starts with a surrogate pair lands before the pair.
C8_WideColumnToByteOffset ==
    /\ (AtLoopEntry /\ encoding # "Utf8")
        => \A l \in 0..(NumLines(text) - 1) :
             LET from == LineStartOf(text, l)
                 to == LineEndOf(text, l)
                 starts == CharStartsOf(text, l)
             IN \A k \in 0..Cardinality(starts) :
                   Offset(line_index, encoding,
                          Pos(l, UnitsOfFirst(encoding, text, starts, k)))
                       = Ok(from + BytesOfFirst(starts, from, to, k))
    /\ (Finished /\ encoding = "Utf16" /\ file_contents = Emoji
        /\ content_changes = <<Insertion(Pos(0, 0), <<"b">>)>>)
        => Result = [panicked |-> FALSE, text |-> <<"b">> \o Emoji]

C8_Witness ==
    /\ pc = "done"
    /\ encoding = "Utf16"
    /\ file_contents = Emoji
    /\ content_changes = <<Insertion(Pos(0, 0), <<"b">>)>>
    /\ text = <<"b">> \o Emoji

\* C9: under UTF-8 the offset of a position on an existing line is the
\* line's start plus the column, the column clamped to the line's byte
\* length (the length line_index gives the line: its terminator included).
C9_Utf8ColumnClamped ==
    (AtLoopEntry /\ encoding = "Utf8")
        => \A l \in 0..(NumLines(text) - 1) :
             LET from == LineStartOf(text, l)
                 to == LineEndOf(text, l)
             IN \A c \in Cols \cup (0..(Len(text) + 1)) :
                   Offset(line_index, encoding, Pos(l, c)) = Ok(from + Min(c, to - from))

\* a column beyond the line's length is converted on a line that does not
\* start the text
C9_Witness ==
    /\ AtLoopEntry
    /\ encoding = "Utf8"
    /\ NumLines(text) = 2
    /\ next <= Len(content_changes)
    /\ content_changes[next].range.start = Pos(1, UintMax)
    /\ LineEndOf(text, 1) > LineStartOf(text, 1)

\* C10: offset fails when the position's line is not a line of the index
\* and returns an offset for every position whose line is one.
C10_ErrorIffLineMissing ==
    AtLoopEntry
        => LET lines == NumLines(text)
           IN \A l \in Lines \cup {lines, UintMax} :
                \A c \in Cols \cup (0..(Len(text) + 1)) :
                   Offset(line_index, encoding, Pos(l, c)).ok <=> l < lines

\* C11: text_range fails with "Invalid Range" exactly when both positions
\* convert and the end offset is below the start offset; when the end
\* offset is at or above the start offset it returns the byte range from
\* start to end.
C11_InvalidRangeIffEndBelowStart ==
    AtLoopEntry
        => \A range \in Ranges :
             LET start == Offset(line_index, encoding, range.start)
                 end == Offset(line_index, encoding, range.end)
                 converted == TextRangeOf(line_index, encoding, range)
             IN /\ converted = Err("Invalid Range")
                    <=> (start.ok /\ end.ok /\ end.val < start.val)
                /\ (start.ok /\ end.ok /\ end.val >= start.val)
                    => converted = Ok([start |-> start.val, end |-> end.val])

\* a change whose range ends on the line above its start was converted and
\* skipped, and a change with an empty range was applied after it
C11_Witness ==
    /\ pc = "done"
    /\ NumLines(file_contents) = 2
    /\ Len(content_changes) = 2
    /\ content_changes[1].range = [none |-> FALSE, start |-> Pos(1, 0), end |-> Pos(0, 0)]
    /\ content_changes[1].text # <<>>
    /\ content_changes[2] = Insertion(Pos(0, 1), <<"b">>)
    /\ Len(text) = Len(file_contents) + 1

(***************************************************************************)
(* db.rs, analysis/mod.rs: the analysis database.                          *)
(*                                                                         *)
(* RootDatabase is a salsa database: SourceFile is an input whose field    *)
(* contents carries the revision it was last set in, parse_document is a   *)
(* tracked function whose memo carries the revision it was last verified   *)
(* in and the revision its value last changed in.  A clone of the          *)
(* database is a second handle on the same storage and, through            *)
(* Arc<Files>, on the same url map.                                        *)
(***************************************************************************)
\* a setter of an input starts a new revision; the model stops at
\* MaxRevision revisions and MaxParserRuns calls of the parser
MaxRevision == 2
MaxParserRuns == 2

Urls == {"A", "B"}
\* a source, the same source after a blank line, and another source
SourceTexts == {<<"a">>, <<NL, "a">>, <<"b">>}

\* tree_sitter::Parser::parse: the tree keeps the bytes' positions, its
\* shape (the node kinds) does not depend on blank space
ParserParse(contents) ==
    [source |-> contents, shape |-> SelectSeq(contents, LAMBDA b : b # NL)]
\* tree.root_node().to_sexp()
ToSexp(tree) == tree.shape

\* equality of documents by the bytes they were parsed from
BladeDocumentEq_ByText(a, b) == a.tree.source = b.tree.source

\* impl PartialEq for BladeDocument
BladeDocumentEq(a, b) == ToSexp(a.tree) = ToSexp(b.tree)

\* the body of parse_document
ParseDocumentBody(contents) == [tree |-> ParserParse(contents)]

NoFile == [present |-> FALSE, contents |-> <<>>, changed_at |-> 0]
NoMemo == [present |-> FALSE, value |-> ParseDocumentBody(<<>>),
           verified_at |-> 0, changed_at |-> 0]
\* RootDatabase::default()
DefaultDatabase ==
    [revision |-> 0, files |-> [u \in Urls |-> NoFile], memos |-> [u \in Urls |-> NoMemo]]

\* Files::set_source_file: a vacant entry gets a new input in the current
\* revision; an occupied entry is set through set_contents(db).to(..),
\* which starts a new revision and stamps the field with it, whatever the
\* value the field had
SetSourceFile(db, url, contents) ==
    IF db.files[url].present
    THEN [db EXCEPT !.revision = db.revision + 1,
                    !.files[url] = [present |-> TRUE, contents |-> contents,
                                    changed_at |-> db.revision + 1]]
    ELSE [db EXCEPT !.files[url] = [present |-> TRUE, contents |-> contents,
                                    changed_at |-> db.revision]]

\* parse_document that returns the memo whenever there is one
ParseDocument_NeverReparses(db, url) ==
    IF db.memos[url].present
    THEN [db |-> db, value |-> db.memos[url].value, executed |-> FALSE]
    ELSE LET value == ParseDocumentBody(db.files[url].contents)
         IN [db |-> [db EXCEPT !.memos[url] =
                        [present |-> TRUE, value |-> value,
                         verified_at |-> db.revision, changed_at |-> db.revision]],
             value |-> value, executed |-> TRUE]

\* #[salsa::tracked] parse_document(db, source): the memo is returned when
\* its input was not set after the memo was verified; otherwise the body
\* runs, and the new value keeps the old changed_at when it equals the old
\* value
ParseDocument(db, url) ==
    LET file == db.files[url]
        memo == db.memos[url]
    IN IF memo.present /\ file.changed_at <= memo.verified_at
       THEN [db |-> [db EXCEPT !.memos[url].verified_at = db.revision],
             value |-> memo.value, executed |-> FALSE]
       ELSE LET value == ParseDocumentBody(file.contents)
                changed_at == IF memo.present /\ BladeDocumentEq(memo.value, value)
                              THEN memo.changed_at ELSE db.revision
            IN [db |-> [db EXCEPT !.memos[url] =
                           [present |-> TRUE, value |-> value,
                            verified_at |-> db.revision, changed_at |-> changed_at]],
                value |-> value, executed |-> TRUE]

\* what the url map holds: the view a snapshot is compared with
FilesView(db) ==
    [u \in Urls |-> [present |-> db.files[u].present, contents |-> db.files[u].contents]]
NoAnalysis == [alive |-> FALSE, view |-> FilesView(DefaultDatabase)]
NoWriter == [waiting |-> FALSE, url |-> "A", contents |-> <<>>]
NoResult == [op |-> "none", url |-> "A", outcome |-> "ok", contents |-> <<>>,
             document |-> ParseDocumentBody(<<>>)]

\* the stage of a url after a set and after a parse: 1 after a set, 2 after
\* a set and a parse, 3 after a set, a parse and a set of the same bytes
StageAfterSet(db, at, url, contents) ==
    IF at = 2 /\ db.files[url].contents = contents THEN 3 ELSE 1
StageAfterParse(at) == IF at \in {1, 2, 3} THEN 2 ELSE at

(***************************************************************************)
(* The host and one snapshot, step by step.                                *)
(***************************************************************************)
InitDb ==
    /\ analysis_host = DefaultDatabase
    /\ analysis = NoAnalysis
    /\ writer = NoWriter
    /\ db_result = NoResult
    /\ parser_runs = 0
    /\ stage = [u \in Urls |-> 0]
    /\ NoCall
    /\ NoHandlers
    /\ NoServer
    /\ NoParsers
    /\ NoLoader
    /\ NoDiagnostics

\* the write of set_source_file and what it leaves behind
Write(url, contents) ==
    /\ analysis_host' = SetSourceFile(analysis_host, url, contents)
    /\ stage' = [stage EXCEPT ![url] = StageAfterSet(analysis_host, @, url, contents)]
    /\ db_result' = [NoResult EXCEPT !.op = "set", !.url = url]

\* AnalysisHost::set_source_file.  A new url is inserted at once, also
\* while a snapshot is alive.  The setter of an occupied entry needs the
\* storage for itself: with a snapshot alive it flags the revision as
\* cancelled and waits for the snapshot to be dropped.
HostSetSourceFile ==
    /\ ~writer.waiting
    /\ \E url \in Urls, contents \in SourceTexts :
          IF ~analysis_host.files[url].present
          THEN Write(url, contents) /\ UNCHANGED writer
          ELSE /\ analysis_host.revision < MaxRevision
               /\ IF analysis.alive
                  THEN /\ writer' = [waiting |-> TRUE, url |-> url, contents |-> contents]
                       /\ UNCHANGED <<analysis_host, stage, db_result>>
                  ELSE Write(url, contents) /\ UNCHANGED writer
    /\ UNCHANGED <<analysis, parser_runs>>
    /\ UNCHANGED beside_db

\* the waiting setter goes on once the snapshot is gone
WriterResumes ==
    /\ writer.waiting
    /\ ~analysis.alive
    /\ Write(writer.url, writer.contents)
    /\ writer' = NoWriter
    /\ UNCHANGED <<analysis, parser_runs>>
    /\ UNCHANGED beside_db

\* AnalysisHost::analysis: a clone of the database (the host is borrowed by
\* a waiting setter, so none is taken meanwhile)
TakeAnalysis ==
    /\ ~writer.waiting
    /\ ~analysis.alive
    /\ analysis' = [alive |-> TRUE, view |-> FilesView(analysis_host)]
    /\ UNCHANGED <<analysis_host, writer, db_result, parser_runs, stage>>
    /\ UNCHANGED beside_db

\* Analysis::file_contents: Files::source_file panics on an unknown url,
\* and the panic drops the snapshot
FileContents ==
    /\ analysis.alive
    /\ \E url \in Urls :
          IF analysis_host.files[url].present
          THEN /\ db_result' = [NoResult EXCEPT !.op = "contents", !.url = url,
                                    !.contents = analysis_host.files[url].contents]
               /\ UNCHANGED analysis
          ELSE /\ db_result' = [NoResult EXCEPT !.op = "contents", !.url = url,
                                    !.outcome = "panic"]
               /\ analysis' = NoAnalysis
    /\ UNCHANGED <<analysis_host, writer, parser_runs, stage>>
    /\ UNCHANGED beside_db

\* Analysis::parsed_document: source_file, then parse_document, which
\* unwinds with Cancelled when a setter is waiting
ParsedDocument ==
    /\ analysis.alive
    /\ parser_runs < MaxParserRuns
    /\ \E url \in Urls :
          IF ~analysis_host.files[url].present
          THEN /\ db_result' = [NoResult EXCEPT !.op = "parse", !.url = url,
                                    !.outcome = "panic"]
               /\ analysis' = NoAnalysis
               /\ UNCHANGED <<analysis_host, parser_runs, stage>>
          ELSE IF writer.waiting
          THEN /\ db_result' = [NoResult EXCEPT !.op = "parse", !.url = url,
                                    !.outcome = "cancelled"]
               /\ analysis' = NoAnalysis
               /\ UNCHANGED <<analysis_host, parser_runs, stage>>
          ELSE LET parsed == ParseDocument(analysis_host, url)
               IN /\ analysis_host' = parsed.db
                  /\ db_result' = [NoResult EXCEPT !.op = "parse", !.url = url,
                                       !.document = parsed.value]
                  /\ parser_runs' = IF parsed.executed THEN parser_runs + 1
                                    ELSE parser_runs
                  /\ stage' = [stage EXCEPT ![url] = StageAfterParse(@)]
                  /\ UNCHANGED analysis
    /\ UNCHANGED writer
    /\ UNCHANGED beside_db

\* the Analysis goes out of scope
DropAnalysis ==
    /\ analysis.alive
    /\ analysis' = NoAnalysis
    /\ UNCHANGED <<analysis_host, writer, db_result, parser_runs, stage>>
    /\ UNCHANGED beside_db

NextDb ==
    \/ HostSetSourceFile
    \/ WriterResumes
    \/ TakeAnalysis
    \/ FileContents
    \/ ParsedDocument
    \/ DropAnalysis

SpecDb == InitDb /\ [][NextDb]_db_vars

(***************************************************************************)
(* Claims about the analysis database.                                     *)
(***************************************************************************)
\* the step is a parse of url that returned a document
ParseReturned(url) ==
    /\ db_result'.op = "parse"
    /\ db_result'.url = url
    /\ db_result'.outcome = "ok"

\* C12: after set_source_file(id, X), a parse of id and a second
\* set_source_file(id, X) with the same bytes, the parse of id does not
\* call the parser.
C12_SameBytesNoSecondParse ==
    [][\A url \in Urls :
          (stage[url] = 3 /\ stage'[url] = 2) => parser_runs' = parser_runs]_db_vars

\* C13: a parse of an identity that follows a parse of it with no set in
\* between returns the cached document and does not call the parser; every
\* parse returns the parse of the text the identity has now, so never the
\* cached parse of an older text.
C13_CachedUntilSet ==
    [][\A url \in Urls :
          ParseReturned(url)
          => /\ stage[url] = 2
                => /\ parser_runs' = parser_runs
                   /\ db_result'.document = analysis_host.memos[url].value
             /\ db_result'.document
                   = ParseDocumentBody(analysis_host'.files[url].contents)]_db_vars

\* the second parse of a url, after a set that changed the shape of its
\* text, returned the parse of the new text
C13_Witness ==
    /\ db_result.op = "parse"
    /\ db_result.outcome = "ok"
    /\ db_result.url = "A"
    /\ ~analysis_host.files["B"].present
    /\ parser_runs = 2
    /\ analysis_host.files["A"].changed_at = 1
    /\ analysis_host.memos["A"].changed_at = 1
    /\ db_result.document.tree.source = analysis_host.files["A"].contents

\* C14: two documents are equal exactly when the s-expressions of their
\* trees are equal: documents parsed from the same text are equal, and so
\* are documents of two texts that differ by a leading blank line.
C14_EqualByShape ==
    \A u, v \in Urls :
        (analysis_host.memos[u].present /\ analysis_host.memos[v].present)
        => LET a == analysis_host.memos[u].value
               b == analysis_host.memos[v].value
           IN /\ BladeDocumentEq(a, b) <=> ToSexp(a.tree) = ToSexp(b.tree)
              /\ a.tree.source = b.tree.source => BladeDocumentEq(a, b)
              /\ a.tree.source = <<NL>> \o b.tree.source => BladeDocumentEq(a, b)
              /\ a.tree.source = <<"a">> /\ b.tree.source = <<"b">>
                    => ~BladeDocumentEq(a, b)

\* the documents of a text and of the text after a blank line are both
\* parsed, and so are the documents of two different sources
C14_Witness ==
    /\ analysis_host.memos["A"].present
    /\ analysis_host.memos["B"].present
    /\ analysis_host.memos["A"].value.tree.source = <<NL, "a">>
    /\ analysis_host.memos["B"].value.tree.source = <<"a">>

\* C19: what a snapshot reads, for every identity, is what the identity
\* held when the snapshot was taken, whatever set_source_file did on the
\* host since.
C19_SnapshotIsPointInTime ==
    analysis.alive => FilesView(analysis_host) = analysis.view

(***************************************************************************)
(* handler.rs: the notification handlers of the ServerState, each run to   *)
(* its end by the server's loop before the next one starts.                *)
(***************************************************************************)
\* the longest text a document is given in the model
MaxLen == 3

\* texts a document is opened with
OpenTexts == {<<"a">>, TComma}
\* change batches: none, a full replacement, an insertion at column 1 and
\* the removal of column 0 (inside the two-byte character under UTF-8)
HandlerBatches ==
    {<<>>,
     <<[range |-> NoRange, text |-> <<NL, "a">>]>>,
     <<Insertion(Pos(0, 1), <<"b">>)>>,
     <<[range |-> [none |-> FALSE, start |-> Pos(0, 0), end |-> Pos(0, 1)],
        text |-> <<>>]>>}
\* the text of the workspace's files on disk
DiskText == <<"b">>

NoDocument == [present |-> FALSE, contents |-> <<>>]
NoPublished == [some |-> FALSE, url |-> "A", contents |-> <<>>,
                document |-> ParseDocumentBody(<<>>)]
NoNotification == [method |-> "none", url |-> "A", changes |-> <<>>]

\* lines 96-101 (and 70-75): the snapshot's source file, its contents and
\* its parse; Files::source_file panics on a url the database does not hold
Publish(db, url) ==
    IF ~db.files[url].present
    THEN [crash |-> "source_file", db |-> db, published |-> NoPublished,
          executed |-> FALSE]
    ELSE LET parsed == ParseDocument(db, url)
         IN [crash |-> "none", db |-> parsed.db,
             published |-> [some |-> TRUE, url |-> url,
                            contents |-> db.files[url].contents,
                            document |-> parsed.value],
             executed |-> parsed.executed]

\* handle_did_change taking its snapshot before the new text is set
HandleDidChange_StaleSnapshot(enc, docs, db, url, changes) ==
    IF docs[url].present
    THEN LET applied == ApplyDocumentChanges(enc, docs[url].contents, changes)
         IN IF applied.panicked
            THEN [crash |-> "replace_range", documents |-> docs, db |-> db,
                  published |-> NoPublished, executed |-> FALSE]
            ELSE LET pub == Publish(db, url)
                 IN [crash |-> pub.crash,
                     documents |-> [docs EXCEPT ![url].contents = applied.text],
                     db |-> SetSourceFile(pub.db, url, applied.text),
                     published |-> pub.published, executed |-> pub.executed]
    ELSE LET pub == Publish(db, url)
         IN [crash |-> pub.crash, documents |-> docs, db |-> pub.db,
             published |-> pub.published, executed |-> pub.executed]

\* fn handle_did_change
HandleDidChange(enc, docs, db, url, changes) ==
    IF docs[url].present
    THEN LET applied == ApplyDocumentChanges(enc, docs[url].contents, changes)
         IN IF applied.panicked
            THEN [crash |-> "replace_range", documents |-> docs, db |-> db,
                  published |-> NoPublished, executed |-> FALSE]
            ELSE LET pub == Publish(SetSourceFile(db, url, applied.text), url)
                 IN [crash |-> pub.crash,
                     documents |-> [docs EXCEPT ![url].contents = applied.text],
                     db |-> pub.db,
                     published |-> pub.published, executed |-> pub.executed]
    ELSE LET pub == Publish(db, url)
         IN [crash |-> pub.crash, documents |-> docs, db |-> pub.db,
             published |-> pub.published, executed |-> pub.executed]

\* loader.rs line 77-79: set_source_file for every file received
RECURSIVE SetSourceFiles(_, _)
SetSourceFiles(db, urls) ==
    IF urls = {} THEN db
    ELSE LET url == CHOOSE u \in urls : TRUE
         IN SetSourceFiles(SetSourceFile(db, url, DiskText), urls \ {url})

InitHandlers ==
    /\ encoding \in Encodings
    /\ documents = [u \in Urls |-> NoDocument]
    /\ published = NoPublished
    /\ handled = NoNotification
    /\ crash = "none"
    /\ loaded = FALSE
    /\ analysis_host = DefaultDatabase
    /\ analysis = NoAnalysis
    /\ writer = NoWriter
    /\ db_result = NoResult
    /\ parser_runs = 0
    /\ stage = [u \in Urls |-> 0]
    /\ file_contents = <<>>
    /\ content_changes = <<>>
    /\ pc = "idle"
    /\ text = <<>>
    /\ next = 1
    /\ line_index = <<>>
    /\ index_valid = 0
    /\ rebuilt = FALSE
    /\ NoServer
    /\ NoParsers
    /\ NoLoader
    /\ NoDiagnostics

\* what no handler touches
HandlersLeave ==
    /\ UNCHANGED <<encoding, file_contents, content_changes, pc, text, next,
                   line_index, index_valid, rebuilt, analysis, writer, db_result, stage>>
    /\ UNCHANGED beside_handlers

\* handle_initialized: load_workspace records the files its producer
\* thread has sent by the time the channel is drained
HandleInitialized ==
    /\ crash = "none"
    /\ ~loaded
    /\ \E received \in SUBSET Urls :
          analysis_host' = SetSourceFiles(analysis_host, received)
    /\ loaded' = TRUE
    /\ handled' = [NoNotification EXCEPT !.method = "initialized"]
    /\ UNCHANGED <<documents, published, crash, parser_runs>>
    /\ HandlersLeave

\* handle_did_open
HandleDidOpen ==
    /\ crash = "none"
    /\ loaded
    /\ \E url \in Urls, contents \in OpenTexts :
          /\ documents' = [documents EXCEPT ![url] =
                              [present |-> TRUE, contents |-> contents]]
          /\ handled' = [NoNotification EXCEPT !.method = "did_open", !.url = url]
    /\ UNCHANGED <<published, crash, loaded, analysis_host, parser_runs>>
    /\ HandlersLeave

\* what a handler that publishes leaves behind
Handled(after) ==
    /\ after.db.revision <= MaxRevision
    /\ parser_runs + (IF after.executed THEN 1 ELSE 0) <= MaxParserRuns
    /\ analysis_host' = after.db
    /\ parser_runs' = parser_runs + (IF after.executed THEN 1 ELSE 0)
    /\ crash' = after.crash
    /\ published' = IF after.crash = "none" THEN after.published ELSE published

\* handle_did_change
HandleDidChangeStep ==
    /\ crash = "none"
    /\ loaded
    /\ \E url \in Urls, changes \in HandlerBatches :
          \E after \in {HandleDidChange(encoding, documents, analysis_host, url, changes)} :
             /\ Len(after.documents[url].contents) <= MaxLen
             /\ Handled(after)
             /\ documents' = after.documents
             /\ handled' = [method |-> "did_change", url |-> url, changes |-> changes]
    /\ UNCHANGED loaded
    /\ HandlersLeave

\* handle_did_save
HandleDidSave ==
    /\ crash = "none"
    /\ loaded
    /\ \E url \in Urls :
          /\ \E after \in {Publish(analysis_host, url)} : Handled(after)
          /\ handled' = [NoNotification EXCEPT !.method = "did_save", !.url = url]
    /\ UNCHANGED <<documents, loaded>>
    /\ HandlersLeave

NextHandlers ==
    \/ HandleInitialized
    \/ HandleDidOpen
    \/ HandleDidChangeStep
    \/ HandleDidSave

handlers_vars == <<handler_vars, analysis_host, parser_runs>>
SpecHandlers == InitHandlers /\ [][NextHandlers]_handlers_vars

(***************************************************************************)
(* Claims about the handlers.                                              *)
(***************************************************************************)
\* C15: the diagnostics handle_did_change publishes for a document of the
\* store are computed from the text that applying the batch to the stored
\* text gives, and from the parse of that text; the handler commits the
\* same text to the store and to the database.
C15_DiagnosticsOfCommittedText ==
    [][\A url \in Urls :
          (handled'.method = "did_change" /\ handled'.url = url
           /\ documents[url].present /\ crash' = "none")
          => LET new == ApplyDocumentChanges(encoding, documents[url].contents,
                                             handled'.changes).text
             IN /\ documents'[url].contents = new
                /\ analysis_host'.files[url].contents = new
                /\ published' = [some |-> TRUE, url |-> url, contents |-> new,
                                 document |-> ParseDocumentBody(new)]]_handlers_vars

\* a second change of a document was published: the database holds an
\* earlier revision of the text and an earlier parse
C15_Witness ==
    /\ handled.method = "did_change"
    /\ crash = "none"
    /\ documents[handled.url].present
    /\ handled.changes # <<>>
    /\ analysis_host.files[handled.url].changed_at >= 1
    /\ parser_runs = 2
    /\ published.some
    /\ published.url = handled.url
    /\ published.contents = documents[handled.url].contents

\* C16: a change or save notification for a url that was never opened and
\* never loaded into the database returns without a panic and leaves the
\* documents and the database as they were.
C16_UnknownIdentityIsNoOp ==
    [][\A url \in Urls :
          (handled'.method \in {"did_change", "did_save"} /\ handled'.url = url
           /\ ~documents[url].present /\ ~analysis_host.files[url].present)
          => /\ crash' = "none"
             /\ documents' = documents
             /\ analysis_host' = analysis_host]_handlers_vars

(***************************************************************************)
(* server.rs: the tower-lsp Server.  Its handlers are async functions run  *)
(* as concurrent tasks; a task gives way to the others at an await.        *)
(* A step of the model runs a task from one await to the next.             *)
(***************************************************************************)
\* the requests the client sends in the model
MaxRequests == 4

Tasks == {1, 2}
\* general.position_encodings of the client's capabilities (none: <<>>)
OfferedEncodings == {<<>>, <<"utf-8">>, <<"utf-16", "utf-32">>}
\* texts a document is opened with
ServerTexts == {<<"a">>, TComma}
\* change batches: an insertion at the start of the text, and the removal
\* of column 0 (inside the two-byte character under UTF-8)
ServerBatches ==
    {<<Insertion(Pos(0, 0), <<"b">>)>>,
     <<[range |-> [none |-> FALSE, start |-> Pos(0, 0), end |-> Pos(0, 1)],
        text |-> <<>>]>>}

\* lines 189-198: the first of utf-8 and utf-32 the client lists, else
\* utf-16
RECURSIVE NegotiatedEncoding(_)
NegotiatedEncoding(client_encodings) ==
    IF client_encodings = <<>> THEN "Utf16"
    ELSE IF Head(client_encodings) = "utf-8" THEN "Utf8"
    ELSE IF Head(client_encodings) = "utf-32" THEN "Utf32"
    ELSE NegotiatedEncoding(Tail(client_encodings))

\* a write of the lock that does not wait for its holder
CanWrite_Always(lock) == TRUE

\* RwLock::write().await, Mutex::lock().await, and the write() of a std
\* RwLock: the task goes on when no other task holds the lock
CanWrite(lock) == lock = 0

NoTree == ParserParse(<<>>)
NoData == [present |-> FALSE, data |-> <<>>, tree |-> NoTree]
Idle == [pc |-> "idle", method |-> "none", url |-> "A", offered |-> <<>>,
         text |-> <<>>, changes |-> <<>>, enc |-> "Utf16",
         new_contents |-> <<>>, tree |-> NoTree, result |-> "none"]

\* Server::new, with no handler started
ServerNew ==
    /\ caps = <<>>
    /\ server_documents = [u \in Urls |-> NoData]
    /\ tasks = [t \in Tasks |-> Idle]
    /\ documents_lock = 0
    /\ parser_lock = 0
    /\ requests = 0

InitServer ==
    /\ ServerNew
    /\ NoCall
    /\ NoDatabase
    /\ NoHandlers
    /\ NoParsers
    /\ NoLoader
    /\ NoDiagnostics

\* what the Server's handlers do not touch
ServerLeaves ==
    UNCHANGED <<vars, db_vars, handler_vars, parser_vars, loader_vars, diagnostics_vars>>

\* tower-lsp starts a handler for a request of the client
Dispatch(t) ==
    /\ tasks[t].pc = "idle"
    /\ requests < MaxRequests
    /\ requests' = requests + 1
    /\ \/ \E offered \in OfferedEncodings :
             tasks' = [tasks EXCEPT ![t] =
                 [Idle EXCEPT !.pc = "initialize_96", !.method = "initialize",
                              !.offered = offered]]
       \/ \E url \in Urls, contents \in ServerTexts :
             tasks' = [tasks EXCEPT ![t] =
                 [Idle EXCEPT !.pc = "did_open_123", !.method = "did_open",
                              !.url = url, !.text = contents]]
       \/ \E url \in Urls, changes \in ServerBatches :
             tasks' = [tasks EXCEPT ![t] =
                 [Idle EXCEPT !.pc = "did_change_144", !.method = "did_change",
                              !.url = url, !.changes = changes]]
    /\ UNCHANGED <<caps, server_documents, documents_lock, parser_lock>>
    /\ ServerLeaves

\* initialize, lines 95-98: the capabilities are written under the write
\* lock, which is released before the next await
Initialize(t) ==
    /\ tasks[t].pc = "initialize_96"
    /\ caps' = tasks[t].offered
    /\ tasks' = [tasks EXCEPT ![t] = Idle]
    /\ UNCHANGED <<server_documents, documents_lock, parser_lock, requests>>
    /\ ServerLeaves

\* did_open taking the parser before the document store
LockDocuments_ParserFirst(t) ==
    /\ \/ /\ tasks[t].pc = "did_open_123"
          /\ CanWrite(parser_lock)
          /\ parser_lock' = t
          /\ tasks' = [tasks EXCEPT ![t].pc = "did_open_parser"]
          /\ UNCHANGED documents_lock
       \/ /\ tasks[t].pc = "did_open_parser"
          /\ CanWrite(documents_lock)
          /\ documents_lock' = t
          /\ tasks' = [tasks EXCEPT ![t].pc = "did_open_125"]
          /\ UNCHANGED parser_lock
       \/ /\ tasks[t].pc = "did_change_144"
          /\ CanWrite(documents_lock)
          /\ documents_lock' = t
          /\ tasks' = [tasks EXCEPT ![t].pc = "did_change_145"]
          /\ UNCHANGED parser_lock
    /\ UNCHANGED <<caps, server_documents, requests>>
    /\ ServerLeaves

\* lines 123 and 144: self.documents.write().await
LockDocuments(t) ==
    /\ tasks[t].pc \in {"did_open_123", "did_change_144"}
    /\ CanWrite(documents_lock)
    /\ documents_lock' = t
    /\ tasks' = [tasks EXCEPT ![t].pc =
                    IF @ = "did_open_123" THEN "did_open_124" ELSE "did_change_145"]
    /\ UNCHANGED <<caps, server_documents, parser_lock, requests>>
    /\ ServerLeaves

\* did_change, lines 145-151: an unknown uri ends the handler; otherwise
\* the encoding is read from the capabilities and the batch is applied to
\* the stored text.  A panic of apply_document_changes ends the task and
\* drops its guard.
DidChangeApply(t) ==
    /\ tasks[t].pc = "did_change_145"
    /\ LET document == server_documents[tasks[t].url]
           enc == NegotiatedEncoding(caps)
       IN IF ~document.present
          THEN /\ tasks' = [tasks EXCEPT ![t] = Idle]
               /\ documents_lock' = 0
          ELSE \E applied \in {ApplyDocumentChanges(enc, document.data, tasks[t].changes)} :
                  IF applied.panicked
                  THEN /\ tasks' = [tasks EXCEPT ![t] = Idle]
                       /\ documents_lock' = 0
                  ELSE /\ tasks' = [tasks EXCEPT ![t].pc = "did_change_152",
                                                 ![t].enc = enc,
                                                 ![t].new_contents = applied.text]
                       /\ UNCHANGED documents_lock
    /\ UNCHANGED <<caps, server_documents, parser_lock, requests>>
    /\ ServerLeaves

\* lines 124 and 152: self.parser.lock().await
LockParser(t) ==
    /\ tasks[t].pc \in {"did_open_124", "did_change_152"}
    /\ CanWrite(parser_lock)
    /\ parser_lock' = t
    /\ tasks' = [tasks EXCEPT ![t].pc =
                    IF @ = "did_open_124" THEN "did_open_125" ELSE "did_change_154"]
    /\ UNCHANGED <<caps, server_documents, documents_lock, requests>>
    /\ ServerLeaves

\* lines 125-138 and 154-158: parser.parse, then the task awaits
\* info_client with both guards alive
Parse(t) ==
    /\ tasks[t].pc \in {"did_open_125", "did_change_154"}
    /\ tasks' = [tasks EXCEPT
          ![t].pc = IF @ = "did_open_125" THEN "did_open_138" ELSE "did_change_158",
          ![t].tree = IF tasks[t].pc = "did_open_125"
                      THEN ParserParse(tasks[t].text)
                      ELSE ParserParse(tasks[t].new_contents)]
    /\ UNCHANGED <<caps, server_documents, documents_lock, parser_lock, requests>>
    /\ ServerLeaves

\* lines 139-140 and 159-165: the document is stored and the guards are
\* dropped
Store(t) ==
    /\ tasks[t].pc \in {"did_open_138", "did_change_158"}
    /\ server_documents' = [server_documents EXCEPT ![tasks[t].url] =
          [present |-> TRUE,
           data |-> IF tasks[t].pc = "did_open_138" THEN tasks[t].text
                    ELSE tasks[t].new_contents,
           tree |-> tasks[t].tree]]
    /\ tasks' = [tasks EXCEPT ![t] = Idle]
    /\ documents_lock' = 0
    /\ parser_lock' = 0
    /\ UNCHANGED <<caps, requests>>
    /\ ServerLeaves

NextServer ==
    \E t \in Tasks :
        \/ Dispatch(t)
        \/ Initialize(t)
        \/ LockDocuments(t)
        \/ DidChangeApply(t)
        \/ LockParser(t)
        \/ Parse(t)
        \/ Store(t)

SpecServer == InitServer /\ [][NextServer]_server_vars

(***************************************************************************)
(* Claims about the Server's concurrent handlers.                          *)
(***************************************************************************)
\* the task holds the document store: it is between its write() and the
\* drop of the guard
InsideStore(t) ==
    tasks[t].pc \in {"did_open_124", "did_open_125", "did_open_138",
                     "did_change_145", "did_change_152", "did_change_154",
                     "did_change_158"}

\* C17: while a did_change of one document is in progress (its batch is
\* applied, the new text is being reparsed), a handler that needs another
\* document of the store is able to enter the store.
C17_OtherDocumentNotBlocked ==
    \A t, w \in Tasks :
        (tasks[t].pc \in {"did_change_152", "did_change_154", "did_change_158"}
         /\ tasks[w].pc \in {"did_open_123", "did_change_144"}
         /\ tasks[w].url # tasks[t].url)
        => ENABLED LockDocuments(w)

\* C18: a did_change holds the store from its read of the stored text to
\* its commit, and what it commits is its batch applied to the text the
\* store holds at the commit: no update of another handler is lost, and two
\* did_change handlers of one document take effect one after the other, in
\* the order they acquired the store.
C18_ChangesSerialized ==
    [][\A t \in Tasks :
          /\ InsideStore(t) => documents_lock = t
          /\ (tasks[t].pc = "did_change_158" /\ tasks'[t].pc = "idle")
             => server_documents'[tasks[t].url].data
                   = ApplyDocumentChanges(tasks[t].enc,
                                          server_documents[tasks[t].url].data,
                                          tasks[t].changes).text]_server_vars

\* two did_change handlers of one document: the first was kept out while
\* the second held the store, and both insertions are in the stored text
C18_Witness ==
    /\ server_documents["A"].data = <<"b", "b", "a">>
    /\ tasks[1].pc = "idle"
    /\ tasks[2].pc = "idle"
    /\ requests = 3

(***************************************************************************)
(* The parsers.  Beside the Mutex<Parser> of server.rs there are the       *)
(* RwLock<Parser> of the Server of lib.rs, used by get_diagnostics, and    *)
(* the thread-local PARSER of db.rs, used by parse_document.  The tasks of *)
(* this specification run the handlers of server.rs, did_open of lib.rs    *)
(* and calls of parse_document, each task on a thread of its own.          *)
(***************************************************************************)
NoLibTree == [present |-> FALSE, tree |-> NoTree]

\* the parser instance a task is inside a call of
NoParser == <<"none", 0>>
ParserInUse(t) ==
    IF tasks[t].pc \in {"did_open_125", "did_change_154"} THEN <<"server.rs parser", 0>>
    ELSE IF tasks[t].pc = "get_diagnostics_88" THEN <<"lib.rs parser", 0>>
    ELSE IF tasks[t].pc = "parse_document_205" THEN <<"PARSER", t>>
    ELSE NoParser

\* Server::new of server.rs and of lib.rs; no thread has borrowed its PARSER
InitParsers ==
    /\ ServerNew
    /\ lib_documents = [u \in Urls |-> NoLibTree]
    /\ lib_parser_lock = 0
    /\ lib_documents_lock = 0
    /\ poisoned = {}
    /\ PARSER = [t \in Tasks |-> FALSE]
    /\ NoCall
    /\ NoDatabase
    /\ NoHandlers
    /\ NoLoader
    /\ NoDiagnostics

\* what get_diagnostics and parse_document do not touch
ParsersLeave ==
    UNCHANGED <<vars, db_vars, handler_vars, loader_vars, diagnostics_vars, caps,
                server_documents, documents_lock, parser_lock>>

\* lib.rs did_open, lines 40-41 and 189-198, up to the call of
\* get_diagnostics; or a call of parse_document that salsa executes
DispatchParsers(t) ==
    /\ tasks[t].pc = "idle"
    /\ requests < MaxRequests
    /\ requests' = requests + 1
    /\ \E url \in Urls, contents \in ServerTexts :
          \/ tasks' = [tasks EXCEPT ![t] =
                 [Idle EXCEPT !.pc = "get_diagnostics_76", !.method = "get_diagnostics",
                              !.url = url, !.text = contents]]
          \/ tasks' = [tasks EXCEPT ![t] =
                 [Idle EXCEPT !.pc = "parse_document_202", !.method = "parse_document",
                              !.url = url, !.text = contents]]
    /\ UNCHANGED parser_vars
    /\ ParsersLeave

\* a lock whose poison no write() notices
IsPoisoned_Never(lock) == FALSE

\* write() of a std RwLock is an Err when a holder of the lock panicked
IsPoisoned(lock) == lock \in poisoned

\* get_diagnostics, lines 76-79: server.parser.write(); a poisoned lock is
\* an Err, which ends the call with an internal error.  The task keeps
\* what the call returned until its next request.
GetDiagnosticsParser(t) ==
    /\ tasks[t].pc = "get_diagnostics_76"
    /\ IF IsPoisoned("parser")
       THEN /\ tasks' = [tasks EXCEPT ![t] = [Idle EXCEPT !.result = "internal_error"]]
            /\ UNCHANGED lib_parser_lock
       ELSE /\ CanWrite(lib_parser_lock)
            /\ lib_parser_lock' = t
            /\ tasks' = [tasks EXCEPT ![t].pc = "get_diagnostics_82"]
    /\ UNCHANGED <<lib_documents, lib_documents_lock, poisoned, PARSER, requests>>
    /\ ParsersLeave

\* lines 82-85: server.documents.write(); on an Err the parser's guard is
\* dropped by the return
GetDiagnosticsDocuments(t) ==
    /\ tasks[t].pc = "get_diagnostics_82"
    /\ IF IsPoisoned("documents")
       THEN /\ tasks' = [tasks EXCEPT ![t] = [Idle EXCEPT !.result = "internal_error"]]
            /\ lib_parser_lock' = 0
            /\ UNCHANGED lib_documents_lock
       ELSE /\ CanWrite(lib_documents_lock)
            /\ lib_documents_lock' = t
            /\ tasks' = [tasks EXCEPT ![t].pc = "get_diagnostics_88"]
            /\ UNCHANGED lib_parser_lock
    /\ UNCHANGED <<lib_documents, poisoned, PARSER, requests>>
    /\ ParsersLeave

\* lines 86-90: parser.parse(document.text.clone(), old_tree)
GetDiagnosticsParse(t) ==
    /\ tasks[t].pc = "get_diagnostics_88"
    /\ tasks' = [tasks EXCEPT ![t].pc = "get_diagnostics_91",
                              ![t].tree = ParserParse(tasks[t].text)]
    /\ UNCHANGED <<parser_vars, requests>>
    /\ ParsersLeave

\* lines 91-97: documents.insert(uri, tree) stores the tree and gives the
\* tree the uri had before; expect panics when the uri had none, and the
\* unwinding drops both guards and poisons both locks.  Otherwise the
\* diagnostics are those of the tree the uri had before, read with the new
\* text, and the guards are dropped by the return.
GetDiagnosticsInsert(t) ==
    /\ tasks[t].pc = "get_diagnostics_91"
    /\ lib_documents' = [lib_documents EXCEPT ![tasks[t].url] =
                            [present |-> TRUE, tree |-> tasks[t].tree]]
    /\ poisoned' = IF lib_documents[tasks[t].url].present THEN poisoned
                   ELSE poisoned \cup {"parser", "documents"}
    /\ lib_parser_lock' = 0
    /\ lib_documents_lock' = 0
    /\ tasks' = [tasks EXCEPT ![t] =
          IF lib_documents[tasks[t].url].present
          THEN [Idle EXCEPT !.result = "ok", !.text = tasks[t].text,
                            !.tree = lib_documents[tasks[t].url].tree]
          ELSE [Idle EXCEPT !.result = "panic"]]
    /\ UNCHANGED <<PARSER, requests>>
    /\ ParsersLeave

\* parse_document, lines 202-204: PARSER.with gives the parser of the
\* calling thread and borrow_mut borrows it; it panics when the RefCell is
\* borrowed already
ParseDocumentBorrow(t) ==
    /\ tasks[t].pc = "parse_document_202"
    /\ IF PARSER[t]
       THEN /\ tasks' = [tasks EXCEPT ![t] = Idle]
            /\ UNCHANGED PARSER
       ELSE /\ PARSER' = [PARSER EXCEPT ![t] = TRUE]
            /\ tasks' = [tasks EXCEPT ![t].pc = "parse_document_205"]
    /\ UNCHANGED <<lib_documents, lib_parser_lock, lib_documents_lock, poisoned, requests>>
    /\ ParsersLeave

\* lines 205-209: parse, the borrow ends with the closure, and the
\* document is returned
ParseDocumentParse(t) ==
    /\ tasks[t].pc = "parse_document_205"
    /\ PARSER' = [PARSER EXCEPT ![t] = FALSE]
    /\ tasks' = [tasks EXCEPT ![t] = Idle]
    /\ UNCHANGED <<lib_documents, lib_parser_lock, lib_documents_lock, poisoned, requests>>
    /\ ParsersLeave

NextParsers ==
    \/ NextServer
    \/ \E t \in Tasks :
        \/ DispatchParsers(t)
        \/ GetDiagnosticsParser(t)
        \/ GetDiagnosticsDocuments(t)
        \/ GetDiagnosticsParse(t)
        \/ GetDiagnosticsInsert(t)
        \/ ParseDocumentBorrow(t)
        \/ ParseDocumentParse(t)

parsers_vars == <<server_vars, parser_vars>>

SpecParsers == InitParsers /\ [][NextParsers]_parsers_vars

(***************************************************************************)
(* Claims about the parsers.                                               *)
(***************************************************************************)
\* C20: at most one task is inside a call of a given parser instance, and
\* a task inside a call holds what guards the instance: the parser mutex
\* of server.rs, the parser write lock of lib.rs, or the borrow of the
\* PARSER of its own thread.
C20_OneTaskPerParser ==
    \A t \in Tasks :
        /\ \A w \in Tasks :
              (w # t /\ ParserInUse(t) # NoParser) => ParserInUse(w) # ParserInUse(t)
        /\ tasks[t].pc \in {"did_open_125", "did_change_154"} => parser_lock = t
        /\ tasks[t].pc = "get_diagnostics_88" => lib_parser_lock = t
        /\ tasks[t].pc = "parse_document_205" => PARSER[t]

\* a handler of server.rs is inside parse, with the parser locked, while
\* the other task has arrived at the store of the same Server
C20_Witness ==
    /\ ParserInUse(1) = <<"server.rs parser", 0>>
    /\ tasks[2].pc \in {"did_open_123", "did_change_144"}
    /\ parser_lock = 1

\* C21: a call of get_diagnostics that finds the parser lock or the
\* document-store lock poisoned returns an internal error: it does not
\* panic, and it leaves the document store and the locks as they were.
C21_PoisonedLockIsInternalError ==
    [][\A t \in Tasks :
          (\/ tasks[t].pc = "get_diagnostics_76" /\ "parser" \in poisoned
           \/ tasks[t].pc = "get_diagnostics_82" /\ "documents" \in poisoned)
          /\ tasks'[t] # tasks[t]
          => /\ tasks'[t].pc = "idle"
             /\ tasks'[t].result = "internal_error"
             /\ lib_documents' = lib_documents
             /\ poisoned' = poisoned]_parsers_vars

\* both tasks called get_diagnostics: the first panicked and poisoned the
\* locks, the second returned the internal error
C21_Witness ==
    /\ tasks[1].result = "panic"
    /\ tasks[2].result = "internal_error"
    /\ poisoned = {"parser", "documents"}

\* C28: get_diagnostics stores the tree it parsed from the document's text
\* and returns the diagnostics of that tree and that text, without a
\* panic, for a first open of a uri as well as for a re-open.
C28_DiagnosticsOfNewTree ==
    [][\A t \in Tasks :
          (tasks[t].pc = "get_diagnostics_91" /\ tasks'[t] # tasks[t])
          => /\ lib_documents'[tasks[t].url].tree = ParserParse(tasks[t].text)
             /\ tasks'[t].result = "ok"
             /\ tasks'[t].tree = ParserParse(tasks[t].text)]_parsers_vars

(***************************************************************************)
(* Further claims about the handlers.                                      *)
(***************************************************************************)
\* C29: every document of server.documents has an input in the analysis
\* database, and the contents of the input are the contents of the
\* document in the store.
C29_StoreMatchesDatabase ==
    crash = "none" =>
        \A url \in Urls :
            documents[url].present
            => /\ analysis_host.files[url].present
               /\ analysis_host.files[url].contents = documents[url].contents

(***************************************************************************)
(* Further claims about the Server of server.rs.                           *)
(***************************************************************************)
\* fn server_capabilities, lines 47-50: what the initialize result
\* announces
ServerCapabilities == [position_encoding |-> "Utf8", text_document_sync |-> "INCREMENTAL"]

\* C30: after an initialize, the encoding a did_change reads the positions
\* of its batch in is the position encoding the initialize result
\* announced, whatever encodings the client offered.
C30_UsesAnnouncedEncoding ==
    [][\A t \in Tasks :
          (tasks[t].pc = "did_change_145" /\ tasks'[t].pc = "did_change_152"
           /\ caps # <<>>)
          => tasks'[t].enc = ServerCapabilities.position_encoding]_server_vars

(***************************************************************************)
(* Claims about the watermark of apply_document_changes.                   *)
(***************************************************************************)
\* what the conversion of a position on the line reads from an index: the
\* byte range of the line and the table of its wide characters
LineOf(index, line) ==
    [range |-> LineRange(index, line),
     wide_chars |-> IF line \in DOMAIN index.line_wide_chars
                    THEN index.line_wide_chars[line] ELSE <<>>]

C27_CachedIndexFreshOnLinesRead ==
    (pc = "loop" /\ next <= Len(content_changes)
     /\ ~IsNone(content_changes[next])
     /\ ~(index_valid <= content_changes[next].range.end.line))
    => \A line \in {content_changes[next].range.start.line,
                    content_changes[next].range.end.line} :
          LineOf(line_index, line) = LineOf(LineIndexNew(text), line)

(***************************************************************************)
(* loader.rs: load_workspace.  The request loop collects the files, starts *)
(* a producer thread that reads them and sends them over a channel, and    *)
(* drains the channel; the producer runs beside it at its own pace.        *)
(***************************************************************************)
\* the files under resources/views and app/Views: each has a url of its
\* own and a text, or cannot be read
ReadResults == {Ok(t) : t \in SourceTexts} \cup {Err("read_to_string")}
WorkspaceEntries ==
    {<<>>}
    \cup {<<[url |-> u, read |-> r]>> : u \in Urls, r \in ReadResults}
    \cup {<<[url |-> u, read |-> r], [url |-> v, read |-> q]>> :
            u \in {"A"}, v \in {"B"}, r \in ReadResults, q \in ReadResults}
    \cup {<<[url |-> u, read |-> r], [url |-> v, read |-> q]>> :
            u \in {"B"}, v \in {"A"}, r \in ReadResults, q \in ReadResults}

\* a receive that waits for a message on an empty channel
Received_Waiting(channel) == channel # <<>>

\* rx.try_recv() returns at once, with a message or with an Err
Received(channel) == TRUE

InitLoader ==
    /\ entries \in WorkspaceEntries
    /\ produced = 0
    /\ rx = <<>>
    /\ loader_pc = "load_workspace"
    /\ analysis_host = DefaultDatabase
    /\ analysis = NoAnalysis
    /\ writer = NoWriter
    /\ db_result = NoResult
    /\ parser_runs = 0
    /\ stage = [u \in Urls |-> 0]
    /\ NoCall
    /\ NoHandlers
    /\ NoServer
    /\ NoParsers
    /\ NoDiagnostics

\* what load_workspace and its producer do not touch
LoaderLeaves ==
    UNCHANGED <<vars, handler_vars, server_vars, parser_vars, diagnostics_vars,
                analysis, writer, db_result, parser_runs, stage>>

\* lines 20-47: the entries are collected, Begin is sent, the channel is
\* made and the producer is spawned
LoadWorkspace ==
    /\ loader_pc = "load_workspace"
    /\ loader_pc' = "try_recv"
    /\ UNCHANGED <<entries, produced, rx, analysis_host>>
    /\ LoaderLeaves

\* lines 49-69, on the producer thread: the next entry is read and, when it
\* could be read, sent
Produce ==
    /\ loader_pc # "load_workspace"
    /\ produced < Len(entries)
    /\ produced' = produced + 1
    /\ rx' = IF ~entries[produced + 1].read.ok THEN rx
             ELSE Append(rx, [url |-> entries[produced + 1].url,
                              contents |-> entries[produced + 1].read.val])
    /\ UNCHANGED <<entries, loader_pc, analysis_host>>
    /\ LoaderLeaves

\* lines 77-80: one try_recv; a message is set in the database, an Err
\* (the channel is empty) ends the loop and load_workspace returns
Drain ==
    /\ loader_pc = "try_recv"
    /\ Received(rx)
    /\ IF rx = <<>>
       THEN /\ loader_pc' = "returned"
            /\ UNCHANGED <<rx, analysis_host>>
       ELSE /\ rx' = Tail(rx)
            /\ analysis_host' = SetSourceFile(analysis_host, Head(rx).url, Head(rx).contents)
            /\ UNCHANGED loader_pc
    /\ UNCHANGED <<entries, produced>>
    /\ LoaderLeaves

NextLoader == LoadWorkspace \/ Produce \/ Drain

loading_vars == <<loader_vars, analysis_host>>

SpecLoader == InitLoader /\ [][NextLoader]_loading_vars

\* the request loop's thread runs; nothing is assumed of the producer
FairSpecLoader ==
    SpecLoader /\ WF_loading_vars(LoadWorkspace) /\ WF_loading_vars(Drain)

(***************************************************************************)
(* Claims about load_workspace.                                            *)
(***************************************************************************)
\* C25: while load_workspace drains the channel its next receive can
\* always be taken, whatever the producer has sent, and load_workspace
\* returns, however far the producer gets.
C25_LoadWorkspaceNeverWaits ==
    /\ [](loader_pc = "try_recv" => ENABLED Drain)
    /\ <>(loader_pc = "returned")

\* load_workspace has returned with one file set in the database while the
\* producer has an entry left to read
C25_Witness ==
    /\ loader_pc = "returned"
    /\ produced < Len(entries)
    /\ \E u \in Urls : analysis_host.files[u].present

(***************************************************************************)
(* Diagnostics: syntax_errors of handler.rs, BladeDocument::syntax_errors  *)
(* of db.rs and diagnose_syntax of lib.rs.  A tree is the text it was      *)
(* parsed from and its nodes in document order; a node has a kind, the     *)
(* is_missing mark, the number of its children and its byte range.  It is  *)
(* an ERROR node when its kind is "ERROR"; a missing node has the kind of  *)
(* the token the parser supplied and an empty range.                       *)
(***************************************************************************)
DiagTexts == {<<"a", "b">>, TComma \o <<"b">>, <<NL>> \o TComma \o <<"b">>}

\* the offsets of s at which a node can begin or end
Boundaries(s) == {o \in 0..Len(s) : o = Len(s) \/ s[o + 1] \notin Continuation}

NodesOf(s) ==
    {[kind |-> k, is_missing |-> FALSE, child_count |-> n, start_byte |-> a, end_byte |-> b] :
        k \in {"ERROR", "text"}, n \in {0, 1},
        a \in Boundaries(s), b \in {e \in Boundaries(s) : e > 0}}
    \cup {[kind |-> ")", is_missing |-> TRUE, child_count |-> 0, start_byte |-> a, end_byte |-> a] :
            a \in Boundaries(s)}

\* the trees of a text: at most two nodes beside the plain ones, in
\* document order
TreesOf(s) ==
    LET nodes == {n \in NodesOf(s) : n.start_byte <= n.end_byte
                                     /\ (n.kind = "text" => n.child_count = 0)}
    IN {[source |-> s, nodes |-> <<>>]}
       \cup {[source |-> s, nodes |-> <<n>>] : n \in nodes}
       \cup {[source |-> s, nodes |-> p] :
               p \in {q \in nodes \X nodes : q[2].start_byte >= q[1].start_byte
                                              /\ q[2] # q[1]}}

\* tree_sitter::Point of a byte offset: the row and the column in bytes
Point(s, byte) ==
    LET row == Cardinality({i \in 1..byte : s[i] = NL})
    IN [row |-> row, column |-> byte - LineStartOf(s, row)]

\* handler.rs lines 32-41, lib.rs node_to_range: row and column of the
\* node's start and end become line and character
NodeToRange(tree, node) ==
    [start |-> Pos(Point(tree.source, node.start_byte).row,
                   Point(tree.source, node.start_byte).column),
     end |-> Pos(Point(tree.source, node.end_byte).row,
                 Point(tree.source, node.end_byte).column)]

\* the bytes of a text as a string
RECURSIVE Utf8Text(_)
Utf8Text(s) == IF s = <<>> THEN "" ELSE Head(s) \o Utf8Text(Tail(s))

\* syntax_errors reporting the first capture only
SyntaxErrors_FirstOnly(document, source_code) ==
    LET captured == SelectSeq(document.tree.nodes, LAMBDA n : n.kind = "ERROR")
    IN IF captured = <<>> THEN <<>>
       ELSE <<[range |-> NodeToRange(document.tree, captured[1]), severity |-> "ERROR",
               source |-> "None", message |-> "Syntax error!"]>>

\* fn syntax_errors of handler.rs, BladeDocument::syntax_errors of db.rs:
\* a diagnostic for every node the query (ERROR) @error captures
SyntaxErrors(document, source_code) ==
    LET captured == SelectSeq(document.tree.nodes, LAMBDA n : n.kind = "ERROR")
    IN [i \in 1..Len(captured) |->
          [range |-> NodeToRange(document.tree, captured[i]), severity |-> "ERROR",
           source |-> "None", message |-> "Syntax error!"]]

\* lib.rs get_error_message
GetErrorMessage(node, source_code) ==
    LET node_text == Utf8Text(SubSeq(source_code, node.start_byte + 1, node.end_byte))
    IN IF node.child_count = 0 /\ node_text # ""
       THEN "Unexpected token: '" \o node_text \o "'"
       ELSE IF node.kind = "ERROR" THEN "Syntax error"
       ELSE "Unexpected syntax: " \o node.kind

\* lib.rs diagnose_syntax: a diagnostic for every node that is an error or
\* is missing
DiagnoseSyntax(tree, source_code) ==
    LET marked == SelectSeq(tree.nodes, LAMBDA n : n.kind = "ERROR" \/ n.is_missing)
    IN [i \in 1..Len(marked) |->
          [range |-> NodeToRange(tree, marked[i]), severity |-> "ERROR",
           source |-> "tree-sitter",
           message |-> IF marked[i].is_missing THEN "Missing " \o marked[i].kind
                       ELSE GetErrorMessage(marked[i], source_code)]]

NoCallYet == [by |-> "none", list |-> <<>>]

InitDiagnostics ==
    /\ encoding \in Encodings
    /\ diag_contents \in DiagTexts
    /\ diag_doc \in {[tree |-> t] : t \in TreesOf(diag_contents)}
    /\ diagnostics = NoCallYet
    /\ file_contents = <<>>
    /\ content_changes = <<>>
    /\ pc = "idle"
    /\ text = <<>>
    /\ next = 1
    /\ line_index = <<>>
    /\ index_valid = 0
    /\ rebuilt = FALSE
    /\ NoDatabase
    /\ NoHandlers
    /\ NoServer
    /\ NoParsers
    /\ NoLoader

\* what the three functions do not touch
DiagnosticsLeave ==
    UNCHANGED <<vars, db_vars, handler_vars, server_vars, parser_vars, loader_vars,
                diag_doc, diag_contents>>

\* handler.rs: syntax_errors(&parsed_document, &contents)
HandlerSyntaxErrors ==
    /\ diagnostics.by = "none"
    /\ diagnostics' = [by |-> "syntax_errors", list |-> SyntaxErrors(diag_doc, diag_contents)]
    /\ DiagnosticsLeave

\* db.rs: doc.syntax_errors(contents)
BladeDocumentSyntaxErrors ==
    /\ diagnostics.by = "none"
    /\ diagnostics' = [by |-> "BladeDocument::syntax_errors",
                       list |-> SyntaxErrors(diag_doc, diag_contents)]
    /\ DiagnosticsLeave

\* lib.rs: diagnose_syntax(&tree, document.text.as_bytes())
LibDiagnoseSyntax ==
    /\ diagnostics.by = "none"
    /\ diagnostics' = [by |-> "diagnose_syntax",
                       list |-> DiagnoseSyntax(diag_doc.tree, diag_contents)]
    /\ DiagnosticsLeave

NextDiagnostics == HandlerSyntaxErrors \/ BladeDocumentSyntaxErrors \/ LibDiagnoseSyntax

SpecDiagnostics == InitDiagnostics /\ [][NextDiagnostics]_diagnostics_vars

(***************************************************************************)
(* Claims about the diagnostics.                                           *)
(***************************************************************************)
\* the nodes of the document the query captures
ErrorNodes == SelectSeq(diag_doc.tree.nodes, LAMBDA n : n.kind = "ERROR")

BySyntaxErrors == diagnostics.by \in {"syntax_errors", "BladeDocument::syntax_errors"}

\* C22 as stated: syntax_errors returns one diagnostic for every captured
\* node, in order, with the node's range, severity Error and the message
\* "Syntax error".
C22_OnePerErrorNode ==
    BySyntaxErrors =>
        /\ Len(diagnostics.list) = Len(ErrorNodes)
        /\ \A i \in 1..Len(diagnostics.list) :
              /\ diagnostics.list[i].range = NodeToRange(diag_doc.tree, ErrorNodes[i])
              /\ diagnostics.list[i].severity = "ERROR"
              /\ diagnostics.list[i].message = "Syntax error"

\* C22 amended: as above, with the message "Syntax error!".
C22_OnePerErrorNodeExclaimed ==
    BySyntaxErrors =>
        /\ Len(diagnostics.list) = Len(ErrorNodes)
        /\ \A i \in 1..Len(diagnostics.list) :
              /\ diagnostics.list[i].range = NodeToRange(diag_doc.tree, ErrorNodes[i])
              /\ diagnostics.list[i].severity = "ERROR"
              /\ diagnostics.list[i].message = "Syntax error!"

\* a tree with two ERROR nodes gave two diagnostics
C22_Witness ==
    /\ diagnostics.by = "syntax_errors"
    /\ Len(ErrorNodes) = 2
    /\ Len(diagnostics.list) = 2
    /\ diagnostics.list[1].range # diagnostics.list[2].range

\* the column of a byte offset of the text in the encoding: the code units
\* of the characters of its line that begin before it
ColumnIn(enc, s, byte) ==
    LET before == {o \in CharStartsOf(s, Point(s, byte).row) : o < byte}
    IN IF enc = "Utf8" THEN Point(s, byte).column
       ELSE Cardinality(before)
            + (IF enc = "Utf16" THEN Cardinality({o \in before : s[o + 1] = "F0"}) ELSE 0)

\* C23: the start and end columns of every diagnostic count the units of
\* the negotiated encoding: UTF-16 code units under UTF-16, code points
\* under UTF-32, bytes under UTF-8.
C23_RangeInNegotiatedEncoding ==
    BySyntaxErrors =>
        \A i \in 1..Len(diagnostics.list) :
            /\ diagnostics.list[i].range.start.character
                  = ColumnIn(encoding, diag_contents, ErrorNodes[i].start_byte)
            /\ diagnostics.list[i].range.end.character
                  = ColumnIn(encoding, diag_contents, ErrorNodes[i].end_byte)

\* C24: for every node of the tree marked missing the diagnostics hold one
\* with the node's range, severity Error and the message "Missing <kind>".
C24_MissingNodesReported ==
    diagnostics.by # "none" =>
        \A k \in 1..Len(diag_doc.tree.nodes) :
            diag_doc.tree.nodes[k].is_missing
            => \E i \in 1..Len(diagnostics.list) :
                  /\ diagnostics.list[i].range
                        = NodeToRange(diag_doc.tree, diag_doc.tree.nodes[k])
                  /\ diagnostics.list[i].severity = "ERROR"
                  /\ diagnostics.list[i].message
                        = "Missing " \o diag_doc.tree.nodes[k].kind

(***************************************************************************)
(* Further claims about load_workspace.                                    *)
(***************************************************************************)
\* the producer has read the k-th entry and sent it on the channel
Sent(k) == k <= Len(entries) /\ produced >= k /\ entries[k].read.ok

\* the k-th entry is an input of the database, with the text read
Recorded(k) ==
    /\ k <= Len(entries)
    /\ entries[k].read.ok
    /\ analysis_host.files[entries[k].url].present
    /\ analysis_host.files[entries[k].url].contents = entries[k].read.val

\* C31: every file the producer has read and sent on the channel is
\* eventually an input of the analysis database with the text that was
\* read.
C31_SentFilesAreRecorded ==
    \A k \in 1..2 : [](Sent(k) => <>Recorded(k))

(***************************************************************************)
(* The Server's handlers on a running executor: a task that can go on      *)
(* does, and a task waiting for a lock of tokio gets it when the lock      *)
(* comes free, since the locks queue their waiters.  Nothing is assumed of *)
(* the client's requests.  DidChangeApply(t) is enabled exactly while the  *)
(* task is at line 145 and every such step leaves the line, so its weak    *)
(* fairness is written out as: the task is again and again not at line 145.*)
(***************************************************************************)
FairSpecServer ==
    /\ SpecServer
    /\ \A t \in Tasks :
          /\ WF_server_vars(Initialize(t))
          /\ SF_server_vars(LockDocuments(t))
          /\ []<>(tasks[t].pc # "did_change_145")
          /\ SF_server_vars(LockParser(t))
          /\ WF_server_vars(Parse(t))
          /\ WF_server_vars(Store(t))

\* the parser mutex is held only by the holder of the document store
StoreBeforeParser == \A t \in Tasks : parser_lock = t => documents_lock = t
\* the step of task t takes the capabilities lock: the write() of line 96,
\* or the read() of negotiated_encoding called at line 147 for a known uri
TakesCaps(t) ==
    /\ \/ tasks[t].pc = "initialize_96"
       \/ /\ tasks[t].pc = "did_change_145"
          /\ server_documents[tasks[t].url].present
    /\ tasks'[t] # tasks[t]
\* every handler that was started returns
HandlersComplete ==
    \A t \in Tasks : [](tasks[t].pc # "idle" => <>(tasks[t].pc = "idle"))

\* C32 as stated: the store is taken before the parser, the capabilities
\* lock is taken only by a task that holds the store, and every handler that
\* was started completes.
C32_CapabilitiesInsideStore ==
    /\ []StoreBeforeParser
    /\ [][\A t \in Tasks : TakesCaps(t) => documents_lock = t]_server_vars
    /\ HandlersComplete

\* C32: the store is taken before the parser; the capabilities lock is taken
\* by did_change while it holds the store and not the parser, and by
\* initialize while it holds no lock at all; every handler that was started
\* completes.
C32_HandlersComplete ==
    /\ []StoreBeforeParser
    /\ [][\A t \in Tasks : TakesCaps(t) =>
              /\ parser_lock # t
              /\ documents_lock = t <=> tasks[t].method = "did_change"]_server_vars
    /\ HandlersComplete

\* a did_open waits for the store while a did_change holds the store and
\* waits for its parse to be logged
C32_Witness ==
    /\ tasks[1].pc = "did_open_123"
    /\ tasks[2].pc = "did_change_158"
    /\ documents_lock = 2
    /\ parser_lock = 2

====
